---------------------------- MODULE Spec2Model ----------------------------
(***************************************************************************)
(* YakuLingo launcher (src/launcher/launcher.c) as a state machine.        *)
(*                                                                         *)
(* A launcher run is one execution of WinMain.  Its stages are the actions *)
(* of the model; the functions WinMain calls (IsAppRunning, FindPythonDir, *)
(* FixPyvenvCfg, SetupEnvironment) are operators that compute what the C   *)
(* code computes.  Wide strings are sequences of one-character strings, so *)
(* that prefix compares, buffer limits and line splitting are computed     *)
(* character by character.  Text files are held as their text-mode         *)
(* content: "\n" ends a line (the CRT's CR-LF translation is the same on   *)
(* read and on write and is not modelled).                                 *)
(*                                                                         *)
(* The world the launcher runs in (the port, the files under the           *)
(* installation root) is shared by all runs; every run has its own locals, *)
(* environment block, dialogs and exit code.                               *)
(***************************************************************************)
EXTENDS Integers, Sequences, FiniteSets, TLC

(***************************************************************************)
(* Program constants                                                       *)
(***************************************************************************)
APP_PORT == 8765
MAX_ENV_SIZE == 32767
\* WCHAR line[1024] and fgetws(line, 1024, file)
LineBufSize == 1024
\* WCHAR version[256] and wcscpy_s(version, 256, line)
VersionBufSize == 256
\* wcsncmp(findData.cFileName, L"cpython-", 8)
PrefixLen == 8
\* _wcsnicmp(line, L"version", 7)
VersionKeyLen == 7
\* wsprintfW never stores more than 1024 characters, the terminator included
WsprintfLimit == 1024

(***************************************************************************)
(* Bounds of the model                                                     *)
(***************************************************************************)
\* most entries under .uv-python in an initial state
MaxEntries == 2
\* most lines of a generated pyvenv.cfg in an initial state
MaxCfgLines == 2

(***************************************************************************)
(* String literals of the source                                           *)
(***************************************************************************)
sHome ==
    <<"h", "o", "m", "e", " ", "=", " ">>
sFlag ==
    <<"i", "n", "c", "l", "u", "d", "e", "-", "s", "y", "s", "t", "e", "m", "-",
      "s", "i", "t", "e", "-", "p", "a", "c", "k", "a", "g", "e", "s", " ", "=",
      " ", "f", "a", "l", "s", "e">>
sVersionKey ==
    <<"v", "e", "r", "s", "i", "o", "n">>
sUvPython ==
    <<"\\", ".", "u", "v", "-", "p", "y", "t", "h", "o", "n", "\\">>
sCpythonPrefix ==
    <<"c", "p", "y", "t", "h", "o", "n", "-">>
sVenv ==
    <<"\\", ".", "v", "e", "n", "v">>
sScripts ==
    <<"\\", "S", "c", "r", "i", "p", "t", "s">>
sPythonw ==
    <<"\\", "S", "c", "r", "i", "p", "t", "s", "\\", "p", "y", "t", "h", "o", "n",
      "w", ".", "e", "x", "e">>
sPyvenvCfg ==
    <<"\\", "p", "y", "v", "e", "n", "v", ".", "c", "f", "g">>
sAppPy ==
    <<"\\", "a", "p", "p", ".", "p", "y">>
sPlaywright ==
    <<"\\", ".", "p", "l", "a", "y", "w", "r", "i", "g", "h", "t", "-", "b", "r",
      "o", "w", "s", "e", "r", "s">>
NL == "\n"

(***************************************************************************)
(* C runtime and Win32 string helpers                                      *)
(***************************************************************************)
Min(a, b) == IF a < b THEN a ELSE b

Take(s, n) == SubSeq(s, 1, Min(n, Len(s)))

Drop(s, n) == SubSeq(s, Min(n, Len(s)) + 1, Len(s))

Fill(c, n) == [i \in 1..n |-> c]

\* the elements of a sequence
Range(f) == {f[i] : i \in DOMAIN f}

\* towlower on the characters the model uses
LowerMap ==
    [c \in {"A", "C", "E", "I", "N", "O", "P", "R", "S", "V", "X", "Y"} |->
        CASE c = "A" -> "a" [] c = "C" -> "c" [] c = "E" -> "e" [] c = "I" -> "i"
          [] c = "N" -> "n" [] c = "O" -> "o" [] c = "P" -> "p" [] c = "R" -> "r"
          [] c = "S" -> "s" [] c = "V" -> "v" [] c = "X" -> "x" [] c = "Y" -> "y"]

ToLower(c) == IF c \in DOMAIN LowerMap THEN LowerMap[c] ELSE c

LowerStr(s) == [i \in 1..Len(s) |-> ToLower(s[i])]

\* wcsncmp(a, b, n) == 0: the first n characters agree, a shorter string
\* agreeing only with a string that ends at the same place
WcsNCmpEq(a, b, n) == Take(a, n) = Take(b, n)

\* _wcsnicmp(a, b, n) == 0
WcsNICmpEq(a, b, n) == LowerStr(Take(a, n)) = LowerStr(Take(b, n))

\* wsprintfW: the formatted text, cut at the API's output limit
wsprintfW(text) == Take(text, WsprintfLimit - 1)

\* index of the first c in s, 0 when there is none
IndexOf(s, c) ==
    LET at == {i \in 1..Len(s) : s[i] = c}
    IN  IF at = {} THEN 0 ELSE CHOOSE i \in at : \A j \in at : i <= j

\* index of the last c in s, 0 when there is none
LastIndexOf(s, c) ==
    LET at == {i \in 1..Len(s) : s[i] = c}
    IN  IF at = {} THEN 0 ELSE CHOOSE i \in at : \A j \in at : j <= i

\* PathRemoveFileSpecW: cut the trailing file name and its backslash
PathRemoveFileSpecW(path) ==
    LET k == LastIndexOf(path, "\\")
    IN  IF k = 0 THEN path ELSE Take(path, k - 1)


(***************************************************************************)
(* The installation the launcher is started from                           *)
(***************************************************************************)
\* the directory that holds YakuLingo.exe
InstallRoot ==
    <<"C", ":", "\\", "Y">>

\* GetModuleFileNameW(NULL, exePath, MAX_PATH)
ExePath ==
    InstallRoot \o <<"\\", "Y", "a", "k", "u", "L", "i", "n", "g", "o", ".", "e", "x", "e">>

\* the files WinMain looks for, as the file system names them
UvPythonPattern == InstallRoot \o sUvPython \o sCpythonPrefix \o <<"*">>
PythonwPath == InstallRoot \o sVenv \o sPythonw
CfgPath == InstallRoot \o sVenv \o sPyvenvCfg

(***************************************************************************)
(* IsAppRunning (launcher.c 30-66)                                         *)
(*                                                                         *)
(* api[f] is what the WinHTTP call f returns if it is made.  The frame     *)
(* keeps the function's locals and the list of WinHTTP calls it made.      *)
(***************************************************************************)
NULL == "NULL"

WinHttpStages ==
    <<"WinHttpOpen", "WinHttpConnect", "WinHttpOpenRequest",
      "WinHttpSendRequest", "WinHttpReceiveResponse">>

WinHttpCall(frame, fn, ok) ==
    [frame EXCEPT !.calls = Append(@, [fn |-> fn, arg |-> "", ok |-> ok])]

WinHttpCloseHandle(frame, h) ==
    [frame EXCEPT !.calls = Append(@, [fn |-> "WinHttpCloseHandle", arg |-> h, ok |-> TRUE])]

\* ProbeCleanup without the close of the connection handle
ProbeCleanupLeaksConnect(frame) ==
    LET c1 == IF frame.hRequest # NULL THEN WinHttpCloseHandle(frame, frame.hRequest) ELSE frame
        c3 == IF c1.hSession # NULL THEN WinHttpCloseHandle(c1, c1.hSession) ELSE c1
    IN  c3

\* the cleanup label: close what is not NULL, request first
ProbeCleanup(frame) ==
    LET c1 == IF frame.hRequest # NULL THEN WinHttpCloseHandle(frame, frame.hRequest) ELSE frame
        c2 == IF c1.hConnect # NULL THEN WinHttpCloseHandle(c1, c1.hConnect) ELSE c1
        c3 == IF c2.hSession # NULL THEN WinHttpCloseHandle(c2, c2.hSession) ELSE c2
    IN  c3

\* ProbeExchange taking a request that was sent for an answer
ProbeExchangeNoReceive(frame, api) ==
    LET sent == WinHttpCall(frame, "WinHttpSendRequest", api["WinHttpSendRequest"])
    IN  IF api["WinHttpSendRequest"] THEN [sent EXCEPT !.result = TRUE] ELSE sent

\* the two nested ifs around WinHttpSendRequest and WinHttpReceiveResponse
ProbeExchange(frame, api) ==
    LET sent == WinHttpCall(frame, "WinHttpSendRequest", api["WinHttpSendRequest"])
        got  == WinHttpCall(sent, "WinHttpReceiveResponse", api["WinHttpReceiveResponse"])
    IN  IF api["WinHttpSendRequest"]
        THEN IF api["WinHttpReceiveResponse"]
             THEN [got EXCEPT !.result = TRUE]
             ELSE got
        ELSE sent

IsAppRunning(api) ==
    LET f0 == [result |-> FALSE, hSession |-> NULL, hConnect |-> NULL,
               hRequest |-> NULL, calls |-> <<>>]
        f1 == [WinHttpCall(f0, "WinHttpOpen", api["WinHttpOpen"])
                 EXCEPT !.hSession = IF api["WinHttpOpen"] THEN "hSession" ELSE NULL]
        \* the three timeouts
        o1 == WinHttpCall(f1, "WinHttpSetOption", TRUE)
        o2 == WinHttpCall(o1, "WinHttpSetOption", TRUE)
        o3 == WinHttpCall(o2, "WinHttpSetOption", TRUE)
        f2 == [WinHttpCall(o3, "WinHttpConnect", api["WinHttpConnect"])
                 EXCEPT !.hConnect = IF api["WinHttpConnect"] THEN "hConnect" ELSE NULL]
        f3 == [WinHttpCall(f2, "WinHttpOpenRequest", api["WinHttpOpenRequest"])
                 EXCEPT !.hRequest = IF api["WinHttpOpenRequest"] THEN "hRequest" ELSE NULL]
    IN  IF f1.hSession = NULL THEN ProbeCleanup(f1)
        ELSE IF f2.hConnect = NULL THEN ProbeCleanup(f2)
        ELSE IF f3.hRequest = NULL THEN ProbeCleanup(f3)
        ELSE ProbeCleanup(ProbeExchange(f3, api))

(***************************************************************************)
(* FindPythonDir (launcher.c 69-92)                                        *)
(*                                                                         *)
(* dir is the .uv-python directory: [exists, entries], the entries in the  *)
(* order the file system enumerates them, each [name, isDir].              *)
(***************************************************************************)
\* FindFirstFileW / FindNextFileW: the entries whose name matches the
\* pattern "cpython-*"; the file system compares names without case
FindFiles(searchPath, dir) ==
    IF searchPath = UvPythonPattern /\ dir.exists
    THEN SelectSeq(dir.entries,
                   LAMBDA e : WcsNICmpEq(e.name, sCpythonPrefix, Len(sCpythonPrefix))
                              /\ Len(e.name) >= Len(sCpythonPrefix))
    ELSE <<>>

\* FirstPythonDir without the FILE_ATTRIBUTE_DIRECTORY test
RECURSIVE FirstPythonDirAnyEntry(_, _)
FirstPythonDirAnyEntry(found, baseDir) ==
    IF found = <<>> THEN [ok |-> FALSE, dir |-> <<>>]
    ELSE IF WcsNCmpEq(Head(found).name, sCpythonPrefix, PrefixLen)
         THEN [ok |-> TRUE, dir |-> wsprintfW(baseDir \o sUvPython \o Head(found).name)]
         ELSE FirstPythonDirAnyEntry(Tail(found), baseDir)

\* FirstPythonDir comparing the prefix without case
RECURSIVE FirstPythonDirAnyCase(_, _)
FirstPythonDirAnyCase(found, baseDir) ==
    IF found = <<>> THEN [ok |-> FALSE, dir |-> <<>>]
    ELSE IF Head(found).isDir /\ WcsNICmpEq(Head(found).name, sCpythonPrefix, PrefixLen)
         THEN [ok |-> TRUE, dir |-> wsprintfW(baseDir \o sUvPython \o Head(found).name)]
         ELSE FirstPythonDirAnyCase(Tail(found), baseDir)

\* the do-while loop: the first enumerated entry that is a directory and
\* whose name starts with "cpython-"
RECURSIVE FirstPythonDir(_, _)
FirstPythonDir(found, baseDir) ==
    IF found = <<>> THEN [ok |-> FALSE, dir |-> <<>>]
    ELSE IF Head(found).isDir /\ WcsNCmpEq(Head(found).name, sCpythonPrefix, PrefixLen)
         THEN [ok |-> TRUE, dir |-> wsprintfW(baseDir \o sUvPython \o Head(found).name)]
         ELSE FirstPythonDir(Tail(found), baseDir)

FindPythonDir(baseDir, dir) ==
    LET searchPath == wsprintfW(baseDir \o sUvPython \o sCpythonPrefix \o <<"*">>)
        found == FindFiles(searchPath, dir)
    IN  \* INVALID_HANDLE_VALUE when nothing matches the pattern
        IF found = <<>> THEN [ok |-> FALSE, dir |-> <<>>]
        ELSE FirstPythonDir(found, baseDir)

(***************************************************************************)
(* FixPyvenvCfg (launcher.c 95-129)                                        *)
(*                                                                         *)
(* file is pyvenv.cfg: [exists, text]; writable says whether it can be     *)
(* opened (or created) for write.                                          *)
(***************************************************************************)
\* fgetws(line, LineBufSize, file): how many characters it takes from the
\* unread text: up to and with the first newline, LineBufSize - 1 at most
FgetwsLen(rest) ==
    LET k == IndexOf(Take(rest, LineBufSize - 1), NL)
    IN  IF k # 0 THEN k ELSE Min(LineBufSize - 1, Len(rest))

\* wcschr(line, L'\n') and *nl = 0
StripNewline(line) ==
    LET k == IndexOf(line, NL)
    IN  IF k # 0 THEN Take(line, k - 1) ELSE line

\* the while (fgetws(...)) loop over the unread text.  version is the
\* buffer so far.  wcscpy_s with a line that does not fit its destination
\* calls the invalid parameter handler, which ends the process.
RECURSIVE ScanVersion(_, _)
ScanVersion(rest, version) ==
    IF rest = <<>> THEN [crashed |-> FALSE, version |-> version]
    ELSE LET n    == FgetwsLen(rest)
             line == StripNewline(Take(rest, n))
         IN  IF WcsNICmpEq(line, sVersionKey, VersionKeyLen)
             THEN IF Len(line) >= VersionBufSize
                  THEN [crashed |-> TRUE, version |-> <<>>]
                  ELSE ScanVersion(Drop(rest, n), line)
             ELSE ScanVersion(Drop(rest, n), version)

\* the three fwprintf calls
WriteCfg(pythonDir, version) ==
    sHome \o pythonDir \o <<NL>>
      \o sFlag \o <<NL>>
      \o (IF version # <<>> THEN version \o <<NL>> ELSE <<>>)

\* FixPyvenvCfg opening the file for append: what it writes follows what
\* the file held
FixPyvenvCfgAppends(venvDir, pythonDir, file, writable) ==
    LET cfgPath == wsprintfW(venvDir \o sPyvenvCfg)
        here    == cfgPath = CfgPath
        canRead == here /\ file.exists
        scan    == IF canRead THEN ScanVersion(file.text, <<>>)
                   ELSE [crashed |-> FALSE, version |-> <<>>]
        opened  == here /\ writable
    IN  IF scan.crashed
        THEN [ret |-> "crash", file |-> file, calls |-> <<"_wfopen_s:r">>]
        ELSE IF opened
        THEN [ret |-> "TRUE",
              file |-> [exists |-> TRUE,
                        text |-> file.text \o WriteCfg(pythonDir, scan.version)],
              calls |-> <<"_wfopen_s:r", "_wfopen_s:w">>]
        ELSE [ret |-> "FALSE", file |-> file, calls |-> <<"_wfopen_s:r", "_wfopen_s:w">>]

\* ret is "TRUE", "FALSE", or "crash" when the process ended inside the call
FixPyvenvCfg(venvDir, pythonDir, file, writable) ==
    LET cfgPath == wsprintfW(venvDir \o sPyvenvCfg)
        here    == cfgPath = CfgPath
        canRead == here /\ file.exists
        scan    == IF canRead THEN ScanVersion(file.text, <<>>)
                   ELSE [crashed |-> FALSE, version |-> <<>>]
        opened  == here /\ writable
    IN  IF scan.crashed
        THEN [ret |-> "crash", file |-> file, calls |-> <<"_wfopen_s:r">>]
        ELSE IF opened
        THEN [ret |-> "TRUE",
              file |-> [exists |-> TRUE, text |-> WriteCfg(pythonDir, scan.version)],
              calls |-> <<"_wfopen_s:r", "_wfopen_s:w">>]
        ELSE [ret |-> "FALSE", file |-> file, calls |-> <<"_wfopen_s:r", "_wfopen_s:w">>]

(***************************************************************************)
(* SetupEnvironment (launcher.c 132-149)                                   *)
(*                                                                         *)
(* e is the process environment: name -> [set, val].  stack is what the    *)
(* uninitialised oldPath buffer happens to hold.                           *)
(***************************************************************************)
SetEnvironmentVariableW(e, name, val) ==
    [e EXCEPT ![name] = [set |-> TRUE, val |-> val]]

\* GetEnvironmentVariableW(name, buf, size): the value when it is set and
\* fits; otherwise the buffer is left as it was
GetEnvironmentVariableW(e, name, buf, size) ==
    IF e[name].set /\ Len(e[name].val) < size THEN e[name].val ELSE buf

\* SetupEnvironment pointing TEMP at the installation as well
SetupEnvironmentSetsTemp(e, baseDir, venvDir, pythonDir, stack) ==
    LET e1 == SetEnvironmentVariableW(e, "VIRTUAL_ENV", venvDir)
        playwrightPath == wsprintfW(baseDir \o sPlaywright)
        e2 == SetEnvironmentVariableW(e1, "PLAYWRIGHT_BROWSERS_PATH", playwrightPath)
        oldPath == GetEnvironmentVariableW(e2, "PATH", stack, MAX_ENV_SIZE)
        newPath == wsprintfW(venvDir \o sScripts \o <<";">> \o pythonDir \o <<";">>
                             \o pythonDir \o sScripts \o <<";">> \o oldPath)
        e3 == SetEnvironmentVariableW(e2, "PATH", newPath)
    IN  SetEnvironmentVariableW(e3, "TEMP", baseDir)

SetupEnvironment(e, baseDir, venvDir, pythonDir, stack) ==
    LET e1 == SetEnvironmentVariableW(e, "VIRTUAL_ENV", venvDir)
        playwrightPath == wsprintfW(baseDir \o sPlaywright)
        e2 == SetEnvironmentVariableW(e1, "PLAYWRIGHT_BROWSERS_PATH", playwrightPath)
        oldPath == GetEnvironmentVariableW(e2, "PATH", stack, MAX_ENV_SIZE)
        newPath == wsprintfW(venvDir \o sScripts \o <<";">> \o pythonDir \o <<";">>
                             \o pythonDir \o sScripts \o <<";">> \o oldPath)
    IN  SetEnvironmentVariableW(e2, "PATH", newPath)

(***************************************************************************)
(* ShowError (launcher.c 152-154) and the dialogs of WinMain               *)
(***************************************************************************)
MessageBoxW(shown, text, caption, icon) ==
    Append(shown, [text |-> text, caption |-> caption, icon |-> icon])

\* ShowError with the icon of the informational dialog
ShowErrorAsInfo(shown, message) ==
    MessageBoxW(shown, message, "YakuLingo - Error", "MB_ICONINFORMATION")

ShowError(shown, message) ==
    MessageBoxW(shown, message, "YakuLingo - Error", "MB_ICONERROR")

MsgAlreadyRunning == "YakuLingo is already running."
MsgRuntimeNotFound == "Python not found in .uv-python directory."
MsgEnvironmentMissing == ".venv not found."
MsgSpawnFailed == "Failed to start application."

(***************************************************************************)
(* State                                                                   *)
(***************************************************************************)
Runs == {1, 2}

VARIABLES
    listening,    \* something answers HTTP on 127.0.0.1:APP_PORT
    uvPython,     \* <InstallRoot>\.uv-python: [exists, entries]
    pythonwExe,   \* <InstallRoot>\.venv\Scripts\pythonw.exe exists
    cfg,          \* <InstallRoot>\.venv\pyvenv.cfg: [exists, text]
    cfgWritable,  \* pyvenv.cfg can be opened or created for write
    children,     \* the processes CreateProcessW has started, in order
    pc,           \* per run: the stage WinMain is about to execute, or how it ended
    wm,           \* per run: WinMain's locals baseDir, pythonDir, venvDir, pythonExe
    probe,        \* per run: the frame of the IsAppRunning call that has just returned
    env,          \* per run: the process environment
    dialogs,      \* per run: the message boxes shown, in order
    exit,         \* per run: [returned, code], WinMain's return value
    ret,          \* per run: what each callee returned
    calls,        \* per run: the system calls with an effect outside the process
    cfgIO,        \* per run: what FixPyvenvCfg read and what it wrote
    trace,        \* per run: the stages executed, in order
    initial       \* the world and the environment the runs were started in

vars == <<listening, uvPython, pythonwExe, cfg, cfgWritable, children,
          pc, wm, probe, env, dialogs, exit, ret, calls, cfgIO, trace, initial>>

world == <<uvPython, pythonwExe, cfgWritable, initial>>

EnvVars == {"VIRTUAL_ENV", "PLAYWRIGHT_BROWSERS_PATH", "PATH", "TEMP"}

Unset == [set |-> FALSE, val |-> <<>>]

NoFrame ==
    [result |-> FALSE, hSession |-> NULL, hConnect |-> NULL, hRequest |-> NULL,
     calls |-> <<>>]

NoFile == [exists |-> FALSE, text |-> <<>>]

(***************************************************************************)
(* Inputs: the installations and environments a run may start in           *)
(***************************************************************************)
\* entries of .uv-python: two runtimes, a plain file with a runtime's
\* name, and a directory whose name differs from the prefix in case only
EntryA == [name |-> sCpythonPrefix \o <<"3", ".", "1", "1">>, isDir |-> TRUE]
EntryB == [name |-> sCpythonPrefix \o <<"3", ".", "1", "2">>, isDir |-> TRUE]
EntryF == [name |-> sCpythonPrefix \o <<"3", ".", "1", "0">>, isDir |-> FALSE]
EntryU == [name |-> <<"C", "P", "y", "t", "h", "o", "n", "-", "3", ".", "9">>, isDir |-> TRUE]
Entries == {EntryA, EntryB, EntryF, EntryU}

\* the listings of at most n entries, no entry twice, in every order
Listings(n) ==
    UNION {{l \in [1..k -> Entries] : \A i, j \in 1..k : i # j => l[i] # l[j]} : k \in 0..n}

UvDirs ==
    {[exists |-> FALSE, entries |-> <<>>]}
      \cup {[exists |-> TRUE, entries |-> l] : l \in Listings(MaxEntries)}

HealthyUvDir == [exists |-> TRUE, entries |-> <<EntryA>>]

\* lines of a pyvenv.cfg
LineVersion == sVersionKey \o <<" ", "=", " ", "3">>
LineVersionInfo == <<"V", "E", "R", "S", "I", "O", "N", "_", "i", "n", "f", "o", " ", "=", " ", "9">>
LineHome == sHome \o <<"o", "l", "d">>
LineVers == <<"v", "e", "r", "s">>
CfgLines == {LineVersion, LineVersionInfo, LineHome}

RECURSIVE JoinLines(_)
JoinLines(ls) == IF ls = <<>> THEN <<>> ELSE Head(ls) \o <<NL>> \o JoinLines(Tail(ls))

\* a version line that just fits the version buffer, and one that does not
LineVersionFits == sVersionKey \o Fill("x", VersionBufSize - 1 - VersionKeyLen)
LineVersionTooLong == sVersionKey \o Fill("x", VersionBufSize - VersionKeyLen)
\* a line that fills fgetws's buffer and goes on with the text of a version line
LineSplit == Fill("x", LineBufSize - 1) \o LineVersion

CfgTexts ==
    UNION {{JoinLines(ls) : ls \in [1..k -> CfgLines]} : k \in 0..MaxCfgLines}
      \cup {LineVersion,                       \* no newline at the end
            JoinLines(<<LineVers, LineHome>>),
            JoinLines(<<LineHome, LineVersionFits>>),
            JoinLines(<<LineVersionTooLong>>),
            JoinLines(<<LineSplit>>),
            JoinLines(<<LineVersionInfo, LineSplit>>)}

CfgFiles == {NoFile} \cup {[exists |-> TRUE, text |-> t] : t \in CfgTexts}

HealthyCfg == [exists |-> TRUE, text |-> JoinLines(<<LineHome, LineVersion>>)]

PathX == [set |-> TRUE, val |-> <<"C", ":", "\\", "X">>]
\* a PATH of the length wsprintfW's output is limited to
PathLong == [set |-> TRUE, val |-> Fill("p", WsprintfLimit)]
Paths == {Unset, PathX, PathLong}

\* what the uninitialised oldPath buffer may hold
StackGarbage == {<<>>, <<"?", "?">>}

Env0(path) ==
    [v \in EnvVars |->
        IF v = "PATH" THEN path
        ELSE IF v = "TEMP" THEN [set |-> TRUE, val |-> <<"C", ":", "\\", "T">>]
        ELSE Unset]

\* the per-run state before WinMain has executed anything
InitRuns(started, path) ==
    /\ pc = [r \in Runs |-> IF r \in started THEN "Start" ELSE "Idle"]
    /\ wm = [r \in Runs |-> [baseDir |-> <<>>, pythonDir |-> <<>>, venvDir |-> <<>>,
                             pythonExe |-> <<>>]]
    /\ probe = [r \in Runs |-> NoFrame]
    /\ env = [r \in Runs |-> Env0(path)]
    /\ dialogs = [r \in Runs |-> <<>>]
    /\ exit = [r \in Runs |-> [returned |-> FALSE, code |-> 0]]
    /\ ret = [r \in Runs |-> [IsAppRunning |-> "none", FindPythonDir |-> "none",
                              GetFileAttributesW |-> "none", FixPyvenvCfg |-> "none",
                              CreateProcessW |-> "none"]]
    /\ calls = [r \in Runs |-> <<>>]
    /\ cfgIO = [r \in Runs |-> [read |-> NoFile, wrote |-> FALSE, written |-> <<>>]]
    /\ trace = [r \in Runs |-> <<>>]
    /\ children = <<>>
    /\ initial = [listening |-> listening, cfg |-> cfg, env |-> Env0(path)]

\* one run; every listing of .uv-python, the rest a sound installation
InitLocate ==
    /\ uvPython \in UvDirs
    /\ cfg = HealthyCfg
    /\ cfgWritable = TRUE
    /\ pythonwExe \in BOOLEAN
    /\ listening \in BOOLEAN
    /\ InitRuns({1}, PathX)

\* one run; every pyvenv.cfg and every PATH, one runtime under .uv-python
InitRepair ==
    /\ uvPython = HealthyUvDir
    /\ cfg \in CfgFiles
    /\ cfgWritable \in BOOLEAN
    /\ pythonwExe \in BOOLEAN
    /\ listening \in BOOLEAN
    /\ \E path \in Paths : InitRuns({1}, path)

\* two runs started from the same installation root
InitRace ==
    /\ uvPython = HealthyUvDir
    /\ cfg \in {NoFile, HealthyCfg}
    /\ cfgWritable \in BOOLEAN
    /\ pythonwExe \in BOOLEAN
    /\ listening \in BOOLEAN
    /\ InitRuns(Runs, PathX)

Init == InitLocate \/ InitRepair \/ InitRace

(***************************************************************************)
(* WinMain (launcher.c 157-237), one action per stage                      *)
(***************************************************************************)
Stage(r, name) == trace' = [trace EXCEPT ![r] = Append(@, name)]

Return(r, code) == exit' = [exit EXCEPT ![r] = [returned |-> TRUE, code |-> code]]

\* GetModuleFileNameW, wcscpy_s, PathRemoveFileSpecW (168-170)
Start(r) ==
    /\ pc[r] = "Start"
    /\ wm' = [wm EXCEPT ![r].baseDir = PathRemoveFileSpecW(ExePath)]
    /\ pc' = [pc EXCEPT ![r] = "CheckRunning"]
    /\ Stage(r, "Start")
    /\ UNCHANGED <<listening, world, cfg, children, probe, env, dialogs, exit, ret,
                   calls, cfgIO>>

\* what the WinHTTP calls may return: any one of them may fail, or none
ApiOutcomes ==
    {[f \in Range(WinHttpStages) |-> f # failAt] : failAt \in Range(WinHttpStages)}
      \cup {[f \in Range(WinHttpStages) |-> TRUE]}

\* WinHttpSendRequest connects: it succeeds only when something listens on
\* the port
CanAnswer(api, up) == api["WinHttpSendRequest"] => up

\* the call IsAppRunning(APP_PORT) of line 173, up to its return
Probe(r) ==
    /\ pc[r] = "CheckRunning"
    /\ \E api \in ApiOutcomes :
          /\ CanAnswer(api, listening)
          /\ probe' = [probe EXCEPT ![r] = IsAppRunning(api)]
    /\ pc' = [pc EXCEPT ![r] = "Probed"]
    /\ UNCHANGED <<listening, world, cfg, children, wm, env, dialogs, exit, ret,
                   calls, cfgIO, trace>>

\* CheckRunning without the return 0 after the dialog
CheckRunningFallsThrough(r) ==
    /\ pc[r] = "Probed"
    /\ probe' = [probe EXCEPT ![r] = NoFrame]
    /\ Stage(r, "CheckRunning")
    /\ ret' = [ret EXCEPT ![r].IsAppRunning = IF probe[r].result THEN "TRUE" ELSE "FALSE"]
    /\ dialogs' = [dialogs EXCEPT ![r] =
                     IF probe[r].result
                     THEN MessageBoxW(@, MsgAlreadyRunning, "YakuLingo", "MB_ICONINFORMATION")
                     ELSE @]
    /\ pc' = [pc EXCEPT ![r] = "LocateRuntime"]
    /\ UNCHANGED <<listening, world, cfg, children, wm, env, calls, cfgIO, exit>>

\* the if of lines 173-177 on the value IsAppRunning returned
CheckRunning(r) ==
    /\ pc[r] = "Probed"
    /\ probe' = [probe EXCEPT ![r] = NoFrame]
    /\ Stage(r, "CheckRunning")
    /\ IF probe[r].result
       THEN /\ ret' = [ret EXCEPT ![r].IsAppRunning = "TRUE"]
            /\ dialogs' = [dialogs EXCEPT ![r] =
                             MessageBoxW(@, MsgAlreadyRunning, "YakuLingo", "MB_ICONINFORMATION")]
            /\ Return(r, 0)
            /\ pc' = [pc EXCEPT ![r] = "AlreadyRunning"]
       ELSE /\ ret' = [ret EXCEPT ![r].IsAppRunning = "FALSE"]
            /\ pc' = [pc EXCEPT ![r] = "LocateRuntime"]
            /\ UNCHANGED <<dialogs, exit>>
    /\ UNCHANGED <<listening, world, cfg, children, wm, env, calls, cfgIO>>

\* lines 179-184
LocateRuntime(r) ==
    /\ pc[r] = "LocateRuntime"
    /\ Stage(r, "LocateRuntime")
    /\ calls' = [calls EXCEPT ![r] = Append(@, "FindFirstFileW")]
    /\ LET found == FindPythonDir(wm[r].baseDir, uvPython)
       IN  IF found.ok
           THEN /\ ret' = [ret EXCEPT ![r].FindPythonDir = "TRUE"]
                /\ wm' = [wm EXCEPT ![r].pythonDir = found.dir]
                /\ pc' = [pc EXCEPT ![r] = "VerifyVenv"]
                /\ UNCHANGED <<dialogs, exit>>
           ELSE /\ ret' = [ret EXCEPT ![r].FindPythonDir = "FALSE"]
                /\ dialogs' = [dialogs EXCEPT ![r] = ShowError(@, MsgRuntimeNotFound)]
                /\ Return(r, 1)
                /\ pc' = [pc EXCEPT ![r] = "Failed"]
                /\ UNCHANGED wm
    /\ UNCHANGED <<listening, world, cfg, children, probe, env, cfgIO>>

\* GetFileAttributesW(path) != INVALID_FILE_ATTRIBUTES
FileExists(path) == path = PythonwPath /\ pythonwExe

\* VerifyVenv without the return 1 after the error dialog
VerifyVenvNoReturn(r) ==
    /\ pc[r] = "VerifyVenv"
    /\ Stage(r, "VerifyVenv")
    /\ calls' = [calls EXCEPT ![r] = Append(@, "GetFileAttributesW")]
    /\ LET venvDir   == wsprintfW(wm[r].baseDir \o sVenv)
           pythonExe == wsprintfW(venvDir \o sPythonw)
       IN  /\ wm' = [wm EXCEPT ![r].venvDir = venvDir, ![r].pythonExe = pythonExe]
           /\ ret' = [ret EXCEPT ![r].GetFileAttributesW =
                                    IF FileExists(pythonExe) THEN "TRUE" ELSE "FALSE"]
           /\ dialogs' = [dialogs EXCEPT ![r] =
                            IF FileExists(pythonExe) THEN @
                            ELSE ShowError(@, MsgEnvironmentMissing)]
           /\ pc' = [pc EXCEPT ![r] = "RepairConfig"]
    /\ UNCHANGED <<listening, world, cfg, children, probe, env, cfgIO, exit>>

\* lines 186-194
VerifyVenv(r) ==
    /\ pc[r] = "VerifyVenv"
    /\ Stage(r, "VerifyVenv")
    /\ calls' = [calls EXCEPT ![r] = Append(@, "GetFileAttributesW")]
    /\ LET venvDir   == wsprintfW(wm[r].baseDir \o sVenv)
           pythonExe == wsprintfW(venvDir \o sPythonw)
       IN  /\ wm' = [wm EXCEPT ![r].venvDir = venvDir, ![r].pythonExe = pythonExe]
           /\ IF FileExists(pythonExe)
              THEN /\ ret' = [ret EXCEPT ![r].GetFileAttributesW = "TRUE"]
                   /\ pc' = [pc EXCEPT ![r] = "RepairConfig"]
                   /\ UNCHANGED <<dialogs, exit>>
              ELSE /\ ret' = [ret EXCEPT ![r].GetFileAttributesW = "FALSE"]
                   /\ dialogs' = [dialogs EXCEPT ![r] = ShowError(@, MsgEnvironmentMissing)]
                   /\ Return(r, 1)
                   /\ pc' = [pc EXCEPT ![r] = "Failed"]
    /\ UNCHANGED <<listening, world, cfg, children, probe, env, cfgIO>>

\* RepairConfig treating a FALSE from FixPyvenvCfg as the other failures
RepairConfigFatal(r) ==
    /\ pc[r] = "RepairConfig"
    /\ Stage(r, "RepairConfig")
    /\ LET done == FixPyvenvCfg(wm[r].venvDir, wm[r].pythonDir, cfg, cfgWritable)
       IN  /\ cfg' = done.file
           /\ ret' = [ret EXCEPT ![r].FixPyvenvCfg = done.ret]
           /\ calls' = [calls EXCEPT ![r] = @ \o done.calls]
           /\ cfgIO' = [cfgIO EXCEPT ![r] =
                          [read |-> cfg, wrote |-> done.ret = "TRUE",
                           written |-> IF done.ret = "TRUE" THEN done.file.text ELSE <<>>]]
           /\ IF done.ret = "FALSE"
              THEN /\ dialogs' = [dialogs EXCEPT ![r] = ShowError(@, "pyvenv.cfg")]
                   /\ Return(r, 1)
                   /\ pc' = [pc EXCEPT ![r] = "Failed"]
              ELSE /\ pc' = [pc EXCEPT ![r] =
                                IF done.ret = "crash" THEN "Crashed" ELSE "ComposeEnv"]
                   /\ UNCHANGED <<dialogs, exit>>
    /\ UNCHANGED <<listening, world, children, wm, probe, env>>

\* line 197: the call of FixPyvenvCfg; its value is not looked at
RepairConfig(r) ==
    /\ pc[r] = "RepairConfig"
    /\ Stage(r, "RepairConfig")
    /\ LET done == FixPyvenvCfg(wm[r].venvDir, wm[r].pythonDir, cfg, cfgWritable)
       IN  /\ cfg' = done.file
           /\ ret' = [ret EXCEPT ![r].FixPyvenvCfg = done.ret]
           /\ calls' = [calls EXCEPT ![r] = @ \o done.calls]
           /\ cfgIO' = [cfgIO EXCEPT ![r] =
                          [read |-> cfg, wrote |-> done.ret = "TRUE",
                           written |-> IF done.ret = "TRUE" THEN done.file.text ELSE <<>>]]
           /\ pc' = [pc EXCEPT ![r] = IF done.ret = "crash" THEN "Crashed" ELSE "ComposeEnv"]
    /\ UNCHANGED <<listening, world, children, wm, probe, env, dialogs, exit>>

\* line 200
ComposeEnv(r) ==
    /\ pc[r] = "ComposeEnv"
    /\ Stage(r, "ComposeEnv")
    /\ \E stack \in StackGarbage :
          env' = [env EXCEPT ![r] =
                    SetupEnvironment(@, wm[r].baseDir, wm[r].venvDir, wm[r].pythonDir, stack)]
    /\ calls' = [calls EXCEPT ![r] = @ \o <<"SetEnvironmentVariableW", "SetEnvironmentVariableW",
                                              "SetEnvironmentVariableW">>]
    /\ pc' = [pc EXCEPT ![r] = "Launch"]
    /\ UNCHANGED <<listening, world, cfg, children, wm, probe, dialogs, exit, ret, cfgIO>>

\* lines 203-204
CommandLine(pythonExe, appScript) ==
    wsprintfW(<<"\"">> \o pythonExe \o <<"\"", " ", "\"">> \o appScript \o <<"\"">>)

\* the program CreateProcessW starts: the first quoted token of the command line
ProgramOf(cmdLine) ==
    LET rest == Drop(cmdLine, 1)
        k    == IndexOf(rest, "\"")
    IN  IF cmdLine # <<>> /\ Head(cmdLine) = "\"" /\ k # 0 THEN Take(rest, k - 1) ELSE <<>>

\* Launch passing NULL for the current directory
LaunchInheritCwd(r) ==
    /\ pc[r] = "Launch"
    /\ Stage(r, "Launch")
    /\ calls' = [calls EXCEPT ![r] = Append(@, "CreateProcessW")]
    /\ LET appScript == wsprintfW(wm[r].baseDir \o sAppPy)
           cmdLine   == CommandLine(wm[r].pythonExe, appScript)
       IN  \E success \in BOOLEAN :
              /\ success => FileExists(ProgramOf(cmdLine))
              /\ IF success
                 THEN /\ children' = Append(children,
                                            [by |-> r, cmdLine |-> cmdLine,
                                             cwd |-> <<>>, env |-> env[r]])
                      /\ ret' = [ret EXCEPT ![r].CreateProcessW = "TRUE"]
                      /\ Return(r, 0)
                      /\ pc' = [pc EXCEPT ![r] = "Done"]
                      /\ UNCHANGED dialogs
                 ELSE /\ ret' = [ret EXCEPT ![r].CreateProcessW = "FALSE"]
                      /\ dialogs' = [dialogs EXCEPT ![r] = ShowError(@, MsgSpawnFailed)]
                      /\ Return(r, 1)
                      /\ pc' = [pc EXCEPT ![r] = "Failed"]
                      /\ UNCHANGED children
    /\ UNCHANGED <<listening, world, cfg, wm, probe, env, cfgIO>>

\* lines 202-236
Launch(r) ==
    /\ pc[r] = "Launch"
    /\ Stage(r, "Launch")
    /\ calls' = [calls EXCEPT ![r] = Append(@, "CreateProcessW")]
    /\ LET appScript == wsprintfW(wm[r].baseDir \o sAppPy)
           cmdLine   == CommandLine(wm[r].pythonExe, appScript)
       IN  \E success \in BOOLEAN :
              /\ success => FileExists(ProgramOf(cmdLine))
              /\ IF success
                 THEN /\ children' = Append(children,
                                            [by |-> r, cmdLine |-> cmdLine,
                                             cwd |-> wm[r].baseDir, env |-> env[r]])
                      /\ ret' = [ret EXCEPT ![r].CreateProcessW = "TRUE"]
                      /\ Return(r, 0)
                      /\ pc' = [pc EXCEPT ![r] = "Done"]
                      /\ UNCHANGED dialogs
                 ELSE /\ ret' = [ret EXCEPT ![r].CreateProcessW = "FALSE"]
                      /\ dialogs' = [dialogs EXCEPT ![r] = ShowError(@, MsgSpawnFailed)]
                      /\ Return(r, 1)
                      /\ pc' = [pc EXCEPT ![r] = "Failed"]
                      /\ UNCHANGED children
    /\ UNCHANGED <<listening, world, cfg, wm, probe, env, cfgIO>>

\* a started application begins to answer on the port; the launcher has
\* returned by then or not
ChildListen ==
    /\ children # <<>>
    /\ ~listening
    /\ listening' = TRUE
    /\ UNCHANGED <<world, cfg, children, pc, wm, probe, env, dialogs, exit, ret, calls,
                   cfgIO, trace>>

Next ==
    \/ \E r \in Runs : Start(r)
    \/ \E r \in Runs : Probe(r)
    \/ \E r \in Runs : CheckRunning(r)
    \/ \E r \in Runs : LocateRuntime(r)
    \/ \E r \in Runs : VerifyVenv(r)
    \/ \E r \in Runs : RepairConfig(r)
    \/ \E r \in Runs : ComposeEnv(r)
    \/ \E r \in Runs : Launch(r)
    \/ ChildListen

Spec == Init /\ [][Next]_vars


(***************************************************************************)
(* Vocabulary of the properties                                            *)
(***************************************************************************)
IsPrefix(p, q) == Len(p) <= Len(q) /\ \A i \in 1..Len(p) : p[i] = q[i]

AllStages ==
    <<"Start", "CheckRunning", "LocateRuntime", "VerifyVenv", "RepairConfig",
      "ComposeEnv", "Launch">>

InfoDialog ==
    [text |-> MsgAlreadyRunning, caption |-> "YakuLingo", icon |-> "MB_ICONINFORMATION"]

ErrorDialog(message) ==
    [text |-> message, caption |-> "YakuLingo - Error", icon |-> "MB_ICONERROR"]

Returned(r, code) == exit[r].returned /\ exit[r].code = code

Spawned(r) == \E i \in 1..Len(children) : children[i].by = r

\* the run has left the file system, its environment and the process table alone
NothingTouched(r) ==
    /\ "_wfopen_s:w" \notin Range(calls[r])
    /\ ~cfgIO[r].wrote
    /\ "SetEnvironmentVariableW" \notin Range(calls[r])
    /\ env[r] = initial.env
    /\ "CreateProcessW" \notin Range(calls[r])
    /\ ~Spawned(r)

\* an entry of .uv-python that is a runtime directory: a directory whose
\* name begins, case for case, with cpython-
Qualifies(e) ==
    /\ e.isDir
    /\ Len(e.name) >= Len(sCpythonPrefix)
    /\ \A i \in 1..Len(sCpythonPrefix) : e.name[i] = sCpythonPrefix[i]

NoRuntime == ~uvPython.exists \/ \A i \in 1..Len(uvPython.entries) : ~Qualifies(uvPython.entries[i])

(***************************************************************************)
(* C1: a run whose probe returned true ends in AlreadyRunning with exit    *)
(* code 0 and exactly the informational dialog, and has not searched for   *)
(* the runtime, opened pyvenv.cfg for write, changed an environment        *)
(* variable or spawned a child.                                            *)
(***************************************************************************)
C1_AlreadyRunning ==
    \A r \in Runs :
        /\ (pc[r] = "Probed" /\ probe[r].result) =>
              /\ ~exit[r].returned
              /\ calls[r] = <<>>
              /\ NothingTouched(r)
        /\ ret[r].IsAppRunning = "TRUE" =>
              /\ pc[r] = "AlreadyRunning"
              /\ Returned(r, 0)
              /\ dialogs[r] = <<InfoDialog>>
              /\ "FindFirstFileW" \notin Range(calls[r])
              /\ ret[r].FindPythonDir = "none"
              /\ NothingTouched(r)
              /\ trace[r] = <<"Start", "CheckRunning">>

C1_Witness ==
    \E r \in Runs : pc[r] = "AlreadyRunning" /\ ret[r].IsAppRunning = "TRUE"

(***************************************************************************)
(* C2: a run whose probe returned false and that finds no runtime          *)
(* directory (also when .uv-python does not exist) shows the               *)
(* RuntimeNotFound error and exits 1, and has not written pyvenv.cfg,      *)
(* changed an environment variable or spawned a child.                     *)
(***************************************************************************)
C2_RuntimeNotFound ==
    \A r \in Runs :
        /\ ("LocateRuntime" \in Range(trace[r]) /\ NoRuntime) => ret[r].FindPythonDir = "FALSE"
        /\ ret[r].FindPythonDir = "FALSE" =>
              /\ ret[r].IsAppRunning = "FALSE"
              /\ pc[r] = "Failed"
              /\ Returned(r, 1)
              /\ dialogs[r] = <<ErrorDialog(MsgRuntimeNotFound)>>
              /\ NothingTouched(r)
              /\ cfg = initial.cfg

C2_Witness ==
    \E r \in Runs : pc[r] = "Failed" /\ ret[r].FindPythonDir = "FALSE" /\ ~uvPython.exists

(***************************************************************************)
(* C3: FixPyvenvCfg is called only in a run whose existence check of       *)
(* <installRoot>\.venv\Scripts\pythonw.exe has passed; a run that finds    *)
(* the binary absent shows the EnvironmentMissing error and exits 1, with  *)
(* pyvenv.cfg as it was, the environment not composed and nothing spawned. *)
(***************************************************************************)
C3_RepairOnlyAfterVerify ==
    \A r \in Runs :
        /\ ret[r].FixPyvenvCfg # "none" =>
              /\ ret[r].GetFileAttributesW = "TRUE"
              /\ pythonwExe
              /\ wm[r].pythonExe = PythonwPath
              /\ IsPrefix(<<"Start", "CheckRunning", "LocateRuntime", "VerifyVenv",
                            "RepairConfig">>, trace[r])
        /\ ("VerifyVenv" \in Range(trace[r]) /\ ~pythonwExe) =>
              ret[r].GetFileAttributesW = "FALSE"
        /\ ret[r].GetFileAttributesW = "FALSE" =>
              /\ pc[r] = "Failed"
              /\ Returned(r, 1)
              /\ dialogs[r] = <<ErrorDialog(MsgEnvironmentMissing)>>
              /\ "_wfopen_s:r" \notin Range(calls[r])
              /\ NothingTouched(r)
              /\ cfg = initial.cfg

C3_Witness ==
    \E r \in Runs : pc[r] = "Failed" /\ ret[r].GetFileAttributesW = "FALSE"

(***************************************************************************)
(* C4: whatever FixPyvenvCfg returns, and so also when pyvenv.cfg cannot   *)
(* be opened for write, the run shows no dialog for it and goes on to      *)
(* ComposeEnv and Launch; it exits 0 exactly when the spawn succeeded and  *)
(* 1, with the SpawnFailed error alone, exactly when the spawn failed.     *)
(***************************************************************************)
C4_RepairFailureNotFatal ==
    \A r \in Runs :
        ret[r].FixPyvenvCfg \in {"TRUE", "FALSE"} =>
            /\ IsPrefix(trace[r], AllStages)
            /\ pc[r] \in {"ComposeEnv", "Launch", "Done", "Failed"}
            /\ pc[r] \in {"ComposeEnv", "Launch"} => dialogs[r] = <<>> /\ ~exit[r].returned
            /\ pc[r] = "Done" =>
                  ret[r].CreateProcessW = "TRUE" /\ Returned(r, 0) /\ dialogs[r] = <<>>
            /\ pc[r] = "Failed" =>
                  /\ ret[r].CreateProcessW = "FALSE"
                  /\ Returned(r, 1)
                  /\ dialogs[r] = <<ErrorDialog(MsgSpawnFailed)>>
            /\ (ret[r].FixPyvenvCfg = "FALSE") = (~cfgWritable)

C4_Witness ==
    \E r \in Runs : ret[r].FixPyvenvCfg = "FALSE" /\ ~cfgWritable /\ pc[r] = "Done"

(***************************************************************************)
(* C5: of two runs started from the same installation root while nothing   *)
(* listens on the port, at most one spawns a child.                        *)
(***************************************************************************)
C5_AtMostOneSpawn ==
    (\A r \in Runs : pc[r] # "Idle") /\ ~initial.listening =>
        Cardinality({r \in Runs : Spawned(r)}) <= 1

(***************************************************************************)
(* C6: every child was spawned by a run that executed, in this order, the  *)
(* probe (not running), the runtime search (found), the venv check         *)
(* (passed), FixPyvenvCfg and SetupEnvironment; the child has the          *)
(* installation root as working directory and the composed environment of  *)
(* its launcher; the launcher has returned 0 in the step that spawned it,  *)
(* whether or not the child answers on the port yet.                       *)
(***************************************************************************)
C6_SpawnOnlyAfterAllStages ==
    /\ \A i \in 1..Len(children) :
          LET c == children[i]
              r == c.by
          IN  /\ trace[r] = AllStages
              /\ ret[r].IsAppRunning = "FALSE"
              /\ ret[r].FindPythonDir = "TRUE"
              /\ ret[r].GetFileAttributesW = "TRUE"
              /\ ret[r].FixPyvenvCfg \in {"TRUE", "FALSE"}
              /\ IsPrefix(<<"SetEnvironmentVariableW", "SetEnvironmentVariableW",
                            "SetEnvironmentVariableW", "CreateProcessW">>,
                          SubSeq(calls[r], Len(calls[r]) - 3, Len(calls[r])))
              /\ c.cwd = InstallRoot
              /\ c.env = env[r]
              /\ c.env # initial.env
              /\ c.env["VIRTUAL_ENV"] = [set |-> TRUE, val |-> InstallRoot \o sVenv]
              /\ c.env["PLAYWRIGHT_BROWSERS_PATH"] = [set |-> TRUE, val |-> InstallRoot \o sPlaywright]
              /\ c.env["PATH"].set
              /\ IsPrefix(InstallRoot \o sVenv \o sScripts \o <<";">> \o wm[r].pythonDir,
                          c.env["PATH"].val)
              /\ c.cmdLine = <<"\"">> \o PythonwPath \o <<"\"", " ", "\"">>
                               \o InstallRoot \o sAppPy \o <<"\"">>
              /\ pc[r] = "Done"
              /\ Returned(r, 0)
              /\ \A j \in 1..Len(children) : children[j].by = r => j = i
    /\ \A r \in Runs : (pc[r] = "Done" \/ ret[r].CreateProcessW = "TRUE") => Spawned(r)

\* a launcher that has returned while its child does not answer yet
C6_Witness ==
    \E r \in Runs : Spawned(r) /\ pc[r] = "Done" /\ ~listening

(***************************************************************************)
(* C7: WinMain returns 0 exactly in AlreadyRunning and Done and 1 exactly  *)
(* in Failed, which is entered from LocateRuntime, VerifyVenv or Launch    *)
(* only; a Failed run has shown exactly one dialog, the error of its       *)
(* stage; an AlreadyRunning run exactly the informational dialog; a Done   *)
(* run none.                                                               *)
(***************************************************************************)
C7_ExitCodeAndDialog ==
    \A r \in Runs :
        /\ Returned(r, 0) <=> pc[r] \in {"AlreadyRunning", "Done"}
        /\ Returned(r, 1) <=> pc[r] = "Failed"
        /\ exit[r].returned => exit[r].code \in {0, 1}
        /\ pc[r] = "Failed" =>
              /\ trace[r] # <<>>
              /\ trace[r][Len(trace[r])] \in {"LocateRuntime", "VerifyVenv", "Launch"}
              /\ dialogs[r] =
                    << ErrorDialog(CASE trace[r][Len(trace[r])] = "LocateRuntime" -> MsgRuntimeNotFound
                                     [] trace[r][Len(trace[r])] = "VerifyVenv" -> MsgEnvironmentMissing
                                     [] OTHER -> MsgSpawnFailed) >>
        /\ pc[r] = "AlreadyRunning" => dialogs[r] = <<InfoDialog>>
        /\ pc[r] = "Done" => dialogs[r] = <<>>
        /\ ~exit[r].returned => dialogs[r] = <<>>

C7_Witness ==
    \E r \in Runs : pc[r] = "Failed" /\ ret[r].CreateProcessW = "FALSE" /\ Returned(r, 1)

(***************************************************************************)
(* C8: IsAppRunning returns true exactly when WinHttpOpen, WinHttpConnect, *)
(* WinHttpOpenRequest, WinHttpSendRequest and WinHttpReceiveResponse were  *)
(* each called and succeeded, and it calls none of the five more than once.*)
(***************************************************************************)
StageCalls(frame, fn) == {i \in 1..Len(frame.calls) : frame.calls[i].fn = fn}

StageSucceeded(frame, fn) == \E i \in StageCalls(frame, fn) : frame.calls[i].ok

C8_ProbeResult ==
    \A r \in Runs :
        pc[r] = "Probed" =>
            /\ probe[r].result <=>
                  \A k \in 1..Len(WinHttpStages) : StageSucceeded(probe[r], WinHttpStages[k])
            /\ \A k \in 1..Len(WinHttpStages) :
                  Cardinality(StageCalls(probe[r], WinHttpStages[k])) <= 1
            /\ Cardinality(StageCalls(probe[r], "WinHttpOpen")) = 1

\* the request went out and no response came back
C8_Witness ==
    \E r \in Runs :
        /\ pc[r] = "Probed"
        /\ ~probe[r].result
        /\ StageSucceeded(probe[r], "WinHttpSendRequest")
        /\ StageCalls(probe[r], "WinHttpReceiveResponse") # {}

(***************************************************************************)
(* The lines of a text file, as an editor shows them                       *)
(***************************************************************************)
RECURSIVE SplitLines(_)
SplitLines(text) ==
    IF text = <<>> THEN <<>>
    ELSE LET k == IndexOf(text, NL)
         IN  IF k = 0 THEN <<text>>
             ELSE <<Take(text, k - 1)>> \o SplitLines(Drop(text, k))

\* a line that begins with the key "version", in any case
IsVersionLine(line) ==
    /\ Len(line) >= Len(sVersionKey)
    /\ \A i \in 1..Len(sVersionKey) : ToLower(line[i]) = sVersionKey[i]

VersionLines(text) == SelectSeq(SplitLines(text), IsVersionLine)

HomeLine(r) == sHome \o wm[r].pythonDir

Repaired(r) == ret[r].FixPyvenvCfg # "none"

(***************************************************************************)
(* C9: when the pyvenv.cfg a run read holds a version line and the run's   *)
(* repair succeeded, the file it wrote is the line home = <runtimeDir>,    *)
(* the line include-system-site-packages = false and one of the version    *)
(* lines of the file it read, unchanged, and nothing else.                 *)
(***************************************************************************)
C9_RoundTrip ==
    \A r \in Runs :
        LET old == VersionLines(cfgIO[r].read.text)
        IN  (cfgIO[r].wrote /\ cfgIO[r].read.exists /\ old # <<>>) =>
                \E i \in 1..Len(old) :
                    cfgIO[r].written = JoinLines(<<HomeLine(r), sFlag, old[i]>>)

(***************************************************************************)
(* C10: when the pyvenv.cfg a run read holds no version line, or there is  *)
(* no pyvenv.cfg, and the file can be opened for write, FixPyvenvCfg        *)
(* returns TRUE and the file it wrote is the home line and the flag line   *)
(* and nothing else.                                                       *)
(***************************************************************************)
C10_NoVersionLine ==
    \A r \in Runs :
        (/\ Repaired(r)
         /\ cfgWritable
         /\ ~cfgIO[r].read.exists \/ VersionLines(cfgIO[r].read.text) = <<>>) =>
            /\ ret[r].FixPyvenvCfg = "TRUE"
            /\ cfgIO[r].written = JoinLines(<<HomeLine(r), sFlag>>)

(***************************************************************************)
(* What FixPyvenvCfg does keep: when every line of the pyvenv.cfg it read  *)
(* fits the version buffer and the file can be opened for write, it        *)
(* returns TRUE and writes the home line, the flag line and the last       *)
(* version line of the file, if it had one.                                *)
(***************************************************************************)
LinesFit(text) ==
    \A i \in 1..Len(SplitLines(text)) : Len(SplitLines(text)[i]) < VersionBufSize

RepairWhenLinesFit ==
    \A r \in Runs :
        LET old == VersionLines(cfgIO[r].read.text)
        IN  (Repaired(r) /\ cfgWritable /\ LinesFit(cfgIO[r].read.text)) =>
                /\ ret[r].FixPyvenvCfg = "TRUE"
                /\ cfgIO[r].written =
                      JoinLines(<<HomeLine(r), sFlag>>
                                  \o (IF old = <<>> THEN <<>> ELSE <<old[Len(old)]>>))

(***************************************************************************)
(* The environment after SetupEnvironment                                  *)
(***************************************************************************)
Composed(r) == "ComposeEnv" \in Range(trace[r])

\* what SetupEnvironment puts in front of the original PATH
PathPrefix(r) ==
    wm[r].venvDir \o sScripts \o <<";">> \o wm[r].pythonDir \o <<";">>
      \o wm[r].pythonDir \o sScripts \o <<";">>

(***************************************************************************)
(* C11: after SetupEnvironment, when PATH was set at the start, PATH is    *)
(* exactly <venvDir>\Scripts;<pythonDir>;<pythonDir>\Scripts; followed by  *)
(* the original PATH, VIRTUAL_ENV is venvDir and PLAYWRIGHT_BROWSERS_PATH   *)
(* is <baseDir>\.playwright-browsers.                                      *)
(***************************************************************************)
C11_ComposedValues ==
    \A r \in Runs :
        (Composed(r) /\ initial.env["PATH"].set) =>
            /\ env[r]["PATH"] =
                  [set |-> TRUE, val |-> PathPrefix(r) \o initial.env["PATH"].val]
            /\ env[r]["VIRTUAL_ENV"] = [set |-> TRUE, val |-> wm[r].venvDir]
            /\ env[r]["PLAYWRIGHT_BROWSERS_PATH"] =
                  [set |-> TRUE, val |-> wm[r].baseDir \o sPlaywright]

\* What SetupEnvironment does keep: the three values are those of C11
\* whenever the composed PATH is shorter than wsprintfW's limit.
ComposedValuesWithinLimit ==
    \A r \in Runs :
        (/\ Composed(r)
         /\ initial.env["PATH"].set
         /\ Len(PathPrefix(r)) + Len(initial.env["PATH"].val) < WsprintfLimit) =>
            /\ env[r]["PATH"] =
                  [set |-> TRUE, val |-> PathPrefix(r) \o initial.env["PATH"].val]
            /\ env[r]["VIRTUAL_ENV"] = [set |-> TRUE, val |-> wm[r].venvDir]
            /\ env[r]["PLAYWRIGHT_BROWSERS_PATH"] =
                  [set |-> TRUE, val |-> wm[r].baseDir \o sPlaywright]

(***************************************************************************)
(* C12: FindPythonDir fails exactly when .uv-python holds no runtime       *)
(* directory (a directory whose name begins, case for case, with           *)
(* cpython-); when it succeeds pythonDir is the path of one runtime        *)
(* directory of .uv-python, whether there is one or several, and never the *)
(* path of a plain file or of an entry without the prefix.                 *)
(***************************************************************************)
Located(r) == "LocateRuntime" \in Range(trace[r])

EntryPath(r, e) == wm[r].baseDir \o sUvPython \o e.name

RuntimeDirs ==
    IF uvPython.exists
    THEN {i \in 1..Len(uvPython.entries) : Qualifies(uvPython.entries[i])}
    ELSE {}

C12_FindRuntimeDir ==
    \A r \in Runs :
        Located(r) =>
            /\ ret[r].FindPythonDir = "FALSE" <=> RuntimeDirs = {}
            /\ ret[r].FindPythonDir = "TRUE" =>
                  /\ \E i \in RuntimeDirs : wm[r].pythonDir = EntryPath(r, uvPython.entries[i])
                  /\ \A i \in 1..Len(uvPython.entries) :
                        wm[r].pythonDir = EntryPath(r, uvPython.entries[i]) => i \in RuntimeDirs

\* two runtime directories, one of them found
C12_Witness ==
    \E r \in Runs :
        /\ ret[r].FindPythonDir = "TRUE"
        /\ Cardinality(RuntimeDirs) = 2
        /\ \E i \in RuntimeDirs : wm[r].pythonDir = EntryPath(r, uvPython.entries[i])

\* FindPythonDir passes over a plain file and a name in another case
\* before it returns the runtime directory behind them
RuntimeBehindOthers ==
    \E r \in Runs :
        /\ ret[r].FindPythonDir = "TRUE"
        /\ Len(uvPython.entries) = 2
        /\ ~Qualifies(uvPython.entries[1])
        /\ wm[r].pythonDir = EntryPath(r, uvPython.entries[2])

(***************************************************************************)
(* C13: when the pyvenv.cfg a run read holds more than one line beginning, *)
(* in any case, with the key version and the run's repair wrote the file,  *)
(* the version line written back is the first such line of the file read.  *)
(***************************************************************************)
C13_FirstVersionLine ==
    \A r \in Runs :
        LET old == VersionLines(cfgIO[r].read.text)
        IN  (cfgIO[r].wrote /\ Len(old) > 1) =>
                cfgIO[r].written = JoinLines(<<HomeLine(r), sFlag, old[1]>>)

(***************************************************************************)
(* C14: when IsAppRunning returns, on every path, each of the handles      *)
(* hSession, hConnect and hRequest that was acquired has been closed       *)
(* exactly once, a handle that was never acquired has not been closed, and *)
(* no WinHTTP call other than a close follows the first close.             *)
(***************************************************************************)
HandleOf ==
    [WinHttpOpen |-> "hSession", WinHttpConnect |-> "hConnect", WinHttpOpenRequest |-> "hRequest"]

Closes(frame, h) ==
    {i \in 1..Len(frame.calls) :
        frame.calls[i].fn = "WinHttpCloseHandle" /\ frame.calls[i].arg = h}

C14_HandlesClosedOnce ==
    \A r \in Runs :
        pc[r] = "Probed" =>
            /\ \A fn \in DOMAIN HandleOf :
                  Cardinality(Closes(probe[r], HandleOf[fn])) =
                      IF StageSucceeded(probe[r], fn) THEN 1 ELSE 0
            /\ \A i \in 1..Len(probe[r].calls) :
                  probe[r].calls[i].fn = "WinHttpCloseHandle" =>
                      /\ \E fn \in DOMAIN HandleOf : probe[r].calls[i].arg = HandleOf[fn]
                      /\ \A j \in i..Len(probe[r].calls) :
                            probe[r].calls[j].fn = "WinHttpCloseHandle"

\* the exit after a failed WinHttpOpenRequest: two handles to close, the
\* third never acquired
C14_Witness ==
    \E r \in Runs :
        /\ pc[r] = "Probed"
        /\ StageSucceeded(probe[r], "WinHttpConnect")
        /\ StageCalls(probe[r], "WinHttpOpenRequest") # {}
        /\ ~StageSucceeded(probe[r], "WinHttpOpenRequest")
        /\ Closes(probe[r], "hConnect") # {}
        /\ Closes(probe[r], "hRequest") = {}

\* every exit of IsAppRunning is taken: after each of the five calls
\* failing, and after all of them succeeding
EveryProbeExit(k) ==
    \E r \in Runs :
        /\ pc[r] = "Probed"
        /\ \A i \in 1..(k - 1) : StageSucceeded(probe[r], WinHttpStages[i])
        /\ k <= Len(WinHttpStages) =>
              /\ StageCalls(probe[r], WinHttpStages[k]) # {}
              /\ ~StageSucceeded(probe[r], WinHttpStages[k])

(***************************************************************************)
(* C15: SetupEnvironment has no failure path: the run goes on to Launch    *)
(* without a dialog and without returning; and when PATH was not set at    *)
(* the start, the PATH it sets is exactly                                  *)
(* <venvDir>\Scripts;<pythonDir>;<pythonDir>\Scripts; with nothing after   *)
(* the last semicolon.                                                     *)
(***************************************************************************)
C15_UnsetPathIsEmpty ==
    \A r \in Runs :
        /\ (trace[r] # <<>> /\ trace[r][Len(trace[r])] = "ComposeEnv") =>
              /\ pc[r] = "Launch"
              /\ dialogs[r] = <<>>
              /\ ~exit[r].returned
        /\ (Composed(r) /\ ~initial.env["PATH"].set) =>
              env[r]["PATH"] = [set |-> TRUE, val |-> PathPrefix(r)]

\* What holds with PATH unset: the composed PATH begins with the three
\* directories, and what follows them is whatever oldPath held.
UnsetPathKeepsPrefix ==
    \A r \in Runs :
        (Composed(r) /\ ~initial.env["PATH"].set) =>
            /\ env[r]["PATH"].set
            /\ \E stack \in StackGarbage : env[r]["PATH"].val = PathPrefix(r) \o stack

(***************************************************************************)
(* C16: for every original PATH shorter than MAX_ENV_SIZE characters, the  *)
(* PATH after SetupEnvironment ends with the whole original value, no      *)
(* character dropped, and with its terminator it fits the newPath buffer   *)
(* of MAX_ENV_SIZE characters.                                             *)
(***************************************************************************)
IsSuffix(p, q) ==
    Len(p) <= Len(q) /\ \A i \in 1..Len(p) : p[i] = q[Len(q) - Len(p) + i]

C16_OriginalPathKept ==
    \A r \in Runs :
        (/\ Composed(r)
         /\ initial.env["PATH"].set
         /\ Len(initial.env["PATH"].val) < MAX_ENV_SIZE) =>
            /\ env[r]["PATH"].set
            /\ IsSuffix(initial.env["PATH"].val, env[r]["PATH"].val)
            /\ Len(env[r]["PATH"].val) > Len(initial.env["PATH"].val)
            /\ Len(env[r]["PATH"].val) + 1 <= MAX_ENV_SIZE

\* What holds of the composed PATH: it never has more characters than
\* wsprintfW stores, and so never more than newPath has room for.
ComposedPathWithinLimit ==
    \A r \in Runs :
        Composed(r) =>
            /\ Len(env[r]["PATH"].val) < WsprintfLimit
            /\ WsprintfLimit <= MAX_ENV_SIZE

(***************************************************************************)
(* C18: a step of a run changes the run's environment only if it is the    *)
(* SetupEnvironment stage, and that stage changes exactly VIRTUAL_ENV,      *)
(* PLAYWRIGHT_BROWSERS_PATH and PATH, each of them set afterwards, and      *)
(* leaves every other variable as it was.                                  *)
(***************************************************************************)
ComposedVars == {"VIRTUAL_ENV", "PLAYWRIGHT_BROWSERS_PATH", "PATH"}

ChangedVars(r) == {v \in EnvVars : env'[r][v] # env[r][v]}

C18_EnvFrame ==
    [][\A r \in Runs :
          /\ pc[r] # "ComposeEnv" => ChangedVars(r) = {}
          /\ (pc[r] = "ComposeEnv" /\ pc'[r] # pc[r]) =>
                /\ ChangedVars(r) = ComposedVars
                /\ \A v \in ComposedVars : env'[r][v].set]_vars

\* a run that has composed its environment and has gone on: the three
\* variables differ from the start, TEMP does not
C18_Witness ==
    \E r \in Runs :
        /\ Composed(r)
        /\ pc[r] \in {"Done", "Failed"}
        /\ {v \in EnvVars : env[r][v] # initial.env[v]} = ComposedVars
        /\ env[r]["TEMP"] = initial.env["TEMP"]

(***************************************************************************)
(* C17: a started run is at every moment either about to execute a stage   *)
(* of WinMain or in exactly one of the terminal states AlreadyRunning,     *)
(* Failed and Done, where WinMain has returned; it never stops anywhere    *)
(* else.  It has executed each stage at most once, in the order of         *)
(* WinMain, and it has started at most one child.                          *)
(***************************************************************************)
Terminal == {"AlreadyRunning", "Failed", "Done"}

\* where a run that has not ended is: the stage it executes next
Running ==
    {"Start", "CheckRunning", "Probed", "LocateRuntime", "VerifyVenv", "RepairConfig",
     "ComposeEnv", "Launch"}

ChildrenOf(r) == {i \in 1..Len(children) : children[i].by = r}

StagesOnceInOrder ==
    \A r \in Runs :
        /\ IsPrefix(trace[r], AllStages)
        /\ Cardinality(ChildrenOf(r)) <= 1

C17_EveryRunTerminates ==
    /\ \A r \in Runs :
          /\ pc[r] \in {"Idle"} \cup Running \cup Terminal
          /\ pc[r] \in Terminal <=> exit[r].returned
    /\ StagesOnceInOrder

\* What holds: every step of a run takes it further down WinMain, so a run
\* takes at most nine steps; it ends in a terminal state or with the
\* process ended inside FixPyvenvCfg; the stages are run once, in order.
Rank(p) ==
    CASE p = "Idle" -> 0
      [] p = "Start" -> 1
      [] p = "CheckRunning" -> 2
      [] p = "Probed" -> 3
      [] p = "LocateRuntime" -> 4
      [] p = "VerifyVenv" -> 5
      [] p = "RepairConfig" -> 6
      [] p = "ComposeEnv" -> 7
      [] p = "Launch" -> 8
      [] OTHER -> 9

RunsAdvance ==
    [][\A r \in Runs :
          /\ pc'[r] # pc[r] => Rank(pc'[r]) > Rank(pc[r])
          /\ pc'[r] = pc[r] => <<wm[r], env[r], trace[r], exit[r], ret[r]>>' =
                                 <<wm[r], env[r], trace[r], exit[r], ret[r]>>]_vars

EndsOrCrashes ==
    /\ \A r \in Runs :
          /\ pc[r] \in {"Idle", "Crashed"} \cup Running \cup Terminal
          /\ pc[r] \in Terminal <=> exit[r].returned
          /\ pc[r] = "Crashed" =>
                /\ trace[r][Len(trace[r])] = "RepairConfig"
                /\ ret[r].FixPyvenvCfg = "crash"
                /\ ~cfgIO[r].wrote
                /\ dialogs[r] = <<>>
    /\ StagesOnceInOrder

(***************************************************************************)
(* C19: FixPyvenvCfg is idempotent for a fixed pythonDir: once a run has   *)
(* called it, whatever pyvenv.cfg was before, calling it again with the    *)
(* same venvDir and pythonDir leaves the file as the first call left it;   *)
(* and a run that repairs the file another run wrote, with the same        *)
(* directories, writes the same text.                                      *)
(***************************************************************************)
C19_RepairIdempotent ==
    \A r \in Runs :
        /\ Repaired(r) =>
              FixPyvenvCfg(wm[r].venvDir, wm[r].pythonDir, cfg, cfgWritable).file = cfg
        /\ \A q \in Runs \ {r} :
              (/\ cfgIO[r].wrote
               /\ cfgIO[q].wrote
               /\ cfgIO[q].read = [exists |-> TRUE, text |-> cfgIO[r].written]
               /\ wm[q].pythonDir = wm[r].pythonDir) =>
                  cfgIO[q].written = cfgIO[r].written

\* a run has rewritten a pyvenv.cfg that held other lines and a version
\* line, and a second run has repaired what the first wrote
C19_Witness ==
    \E r \in Runs : \E q \in Runs \ {r} :
        /\ cfgIO[r].wrote
        /\ cfgIO[r].read.exists
        /\ cfgIO[r].read.text # cfgIO[r].written
        /\ VersionLines(cfgIO[r].read.text) # <<>>
        /\ cfgIO[q].wrote
        /\ cfgIO[q].read = [exists |-> TRUE, text |-> cfgIO[r].written]

\* the first call changed a file of the repair family: one with a long
\* line that fgetws splits
RepairedSplitLine ==
    \E r \in Runs :
        /\ cfgIO[r].wrote
        /\ ~LinesFit(cfgIO[r].read.text)
        /\ cfg.text = cfgIO[r].written
        /\ FixPyvenvCfg(wm[r].venvDir, wm[r].pythonDir, cfg, cfgWritable).file = cfg

=============================================================================
